---- MODULE Spec2Model ----
(***************************************************************************)
(* Model of the NeteaseMusic chat plugin (plugins.v2/neteasemusic):        *)
(* the per-user session store, the PluginAction dispatcher command_action  *)
(* with its two commands /y (netease_music_download) and /n                *)
(* (netease_music_select), and the catalog client calls they make.         *)
(*                                                                         *)
(* One inbound event is handled in one step.  The wall clock (time.time()) *)
(* is an input of the environment: the handlers assume nothing about its   *)
(* magnitude, so the model lets it take any value of Times, small ones     *)
(* included.  An optional dict key is a sequence of length 0 (absent) or 1. *)
(***************************************************************************)
EXTENDS Integers, Sequences, FiniteSets, TLC

(* ------------------------------ constants ------------------------------ *)

SESSION_TIMEOUT == 300

PAGE_SIZE == 8

DEFAULT_QUALITY == "exhigh"

quality_options ==
    << [code |-> "standard", name |-> "q_standard"],
       [code |-> "exhigh",   name |-> "q_exhigh"],
       [code |-> "lossless", name |-> "q_lossless"],
       [code |-> "hires",    name |-> "q_hires"],
       [code |-> "sky",      name |-> "q_sky"],
       [code |-> "jyeffect", name |-> "q_jyeffect"],
       [code |-> "jymaster", name |-> "q_jymaster"] >>

(* ------------------------------- bounds -------------------------------- *)

\* clock values are k * SESSION_TIMEOUT and one second later, k <= MaxEpoch
MaxEpoch == 1

\* length of the longest result list the catalog returns (two pages)
MaxSongs == 12

Times == { k * SESSION_TIMEOUT + j : k \in 0..MaxEpoch, j \in {0, 1} }

Users == {"u1", "u2"}

\* a missing (or empty, hence falsy) id field of an event
NoId == ""

\* configured default quality: unset (None), the sentinel, a concrete tier
QualityConfigs == {"", "ask", "lossless"}

Songs(base, n) == [i \in 1..n |-> [id |-> base + i]]

\* what the remote catalog holds for a keyword
Catalog(keyword) == IF keyword = <<"a">> THEN Songs(100, MaxSongs) ELSE Songs(200, 2)

\* search_music: transport failure, failure reported by the service, no match, matches
SearchOutcomes(keyword) ==
    { [kind |-> "error", data |-> <<>>], [kind |-> "fail", data |-> <<>>],
      [kind |-> "ok", data |-> <<>>], [kind |-> "ok", data |-> Catalog(keyword)] }

\* download_music_for_link: success with the tier asked for, success with a
\* lower tier substituted by the service, failure
DownloadOutcomes == {"ok", "ok_substituted", "fail"}

\* download_result.get("success")
Succeeded(dl) == dl # "fail"

\* tx[i]: the i-th post_message / post_medias_message of the event raises
Transport == { <<FALSE, FALSE>>, <<TRUE, FALSE>>, <<TRUE, TRUE>> }

SelectArgs ==
    { <<" ">>, <<"1">>, <<" ", "2">>, <<"9">>, <<"0">>, <<"N">>, <<"p">>, <<"x">> }

\* the transport delivers every message
Working == <<FALSE, FALSE>>

Event(action, userid, user, arg_str) ==
    [action |-> action, userid |-> userid, user |-> user, arg_str |-> arg_str]

\* /y events of user u1, named by the primary id field or by the fallback field
DownloadEvents ==
    { Event("netease_music_download", "u1", NoId, <<"a">>),
      Event("netease_music_download", NoId, "u1", <<" ", "b">>) }

\* /y without a keyword
BareDownloadEvents == { Event("netease_music_download", "u1", NoId, <<" ">>) }

\* /n events of user u1: both id fields are set, the primary one is u1
SelectEvents == { Event("netease_music_select", "u1", "u2", s) : s \in SelectArgs }

\* events that name no user, and an action of another plugin
IgnoredEvents ==
    { Event("netease_music_download", NoId, NoId, <<"a">>),
      Event("netease_music_select", NoId, NoId, <<"1">>),
      Event("other", "u1", NoId, <<"1">>) }

\* a button callback that carries the id of the first track of Catalog(<<"a">>):
\* no command is registered for it, it reaches the dispatcher under an action
\* of its own
CallbackEvents == { Event("callback", "u1", NoId, <<"1", "0", "1">>) }

\* free text (carried in arg_str)
UserMessages == { Event("user_message", "u1", NoId, <<"a">>) }

(* ------------------------------ strings -------------------------------- *)

RECURSIVE LStrip(_)
LStrip(s) == IF s # <<>> /\ Head(s) = " " THEN LStrip(Tail(s)) ELSE s

RECURSIVE RStrip(_)
RStrip(s) ==
    IF s # <<>> /\ s[Len(s)] = " " THEN RStrip(SubSeq(s, 1, Len(s) - 1)) ELSE s

\* str.strip()
Strip(s) == RStrip(LStrip(s))

LowerChar(c) ==
    CASE c = "N" -> "n" [] c = "P" -> "p" [] c = "X" -> "x" [] OTHER -> c

\* str.lower()
Lower(s) == [i \in 1..Len(s) |-> LowerChar(s[i])]

Digits == <<"0", "1", "2", "3", "4", "5", "6", "7", "8", "9">>

IsDigit(c) == \E i \in 1..Len(Digits) : Digits[i] = c

DigitVal(c) == (CHOOSE i \in 1..Len(Digits) : Digits[i] = c) - 1

RECURSIVE DigitsValue(_)
DigitsValue(d) ==
    IF d = <<>> THEN 0
    ELSE 10 * DigitsValue(SubSeq(d, 1, Len(d) - 1)) + DigitVal(d[Len(d)])

\* int(s): <<v>>, or <<>> when int() raises ValueError
ParseInt(s) ==
    LET signed == s # <<>> /\ Head(s) \in {"-", "+"}
        body == IF signed THEN Tail(s) ELSE s
    IN  IF body = <<>> \/ \E i \in 1..Len(body) : ~IsDigit(body[i]) THEN <<>>
        ELSE IF signed /\ Head(s) = "-" THEN << 0 - DigitsValue(body) >>
        ELSE << DigitsValue(body) >>

\* str(n) for n >= 0
RECURSIVE ToStr(_)
ToStr(n) == IF n < 10 THEN <<Digits[n + 1]>> ELSE Append(ToStr(n \div 10), Digits[(n % 10) + 1])

(* ------------------------------- state --------------------------------- *)

VARIABLES sessions, enabled, default_quality, now, ev, sent, searched, downloaded, raised,
          returned, running

vars == <<sessions, enabled, default_quality, now, ev, sent, searched, downloaded, raised,
          returned, running>>

\* the dict holds no entry for the user
NoSession == [state |-> "absent", data |-> <<>>, last_active |-> 0]

NoEvent == [action |-> "none", userid |-> NoId, user |-> NoId, arg_str |-> <<>>]

\* the last direct call of an operation: whether a store call found a record
\* under its key, and the value returned (none when no call was observed)
NoReturn == [found |-> FALSE, value |-> <<>>]

\* the handlers of two deliveries that run at the same time
Handlers == {1, 2}

\* a handler that is not running; its locals once it runs: the event, the
\* reference it holds to the data dict of the session it read (an index of the
\* heap), the session as it read it, songs and current_page as it read them,
\* the session it makes of what it read, and the download it is about to call
NoFrame ==
    [pc |-> "start", e |-> NoEvent, data |-> 0, session |-> <<>>, songs |-> <<>>,
     current_page |-> 0, own |-> <<>>, call |-> <<>>]

\* the data dicts as objects: heap holds them, ref is the one inside the stored
\* session of the user (0: none); last is the handler of the last write to
\* self._sessions. Nothing runs step by step: no object is shared
NoRunning ==
    [heap |-> <<>>, ref |-> 0, frames |-> [h \in Handlers |-> NoFrame], last |-> 0]

\* dict.get(key, default) on an optional key
Get(opt, default) == IF opt = <<>> THEN default ELSE opt[1]

\* mutant: the fallback field is preferred
Mutant_Resolve_prefers_user(e) == IF e.user # NoId THEN e.user ELSE e.userid

\* event_data.get("userid") or event_data.get("user")
Resolve(e) == IF e.userid # NoId THEN e.userid ELSE e.user

\* mutant: dict.pop(key) without a default, KeyError whenever the key is absent
Mutant_dict_pop_no_default(S, key, has_default) ==
    [s |-> [S EXCEPT ![key] = NoSession], raised |-> S[key].state = "absent"]

\* dict.pop(key[, default]): KeyError when the key is absent and no default is given
dict_pop(S, key, has_default) ==
    [s |-> [S EXCEPT ![key] = NoSession],
     raised |-> ~has_default /\ S[key].state = "absent"]

\* mutant: the whole dict is emptied
Mutant_Pop_clears(S, userid) == [u \in DOMAIN S |-> NoSession]

\* self._sessions.pop(userid, None)
Pop(S, userid) == dict_pop(S, userid, TRUE).s

\* mutant: an expired session is only filtered out, the record stays
Mutant_get_session_filters(S, userid, t) ==
    IF S[userid].state = "absent" THEN [s |-> S, session |-> <<>>]
    ELSE IF t - S[userid].last_active > SESSION_TIMEOUT
         THEN [s |-> S, session |-> <<>>]
    ELSE [s |-> S, session |-> <<S[userid]>>]

\* mutant: a successful read stamps last_active
Mutant_get_session_refreshes(S, userid, t) ==
    IF S[userid].state = "absent" THEN [s |-> S, session |-> <<>>]
    ELSE IF t - S[userid].last_active > SESSION_TIMEOUT
         THEN [s |-> Pop(S, userid), session |-> <<>>]
    ELSE [s |-> [S EXCEPT ![userid].last_active = t],
          session |-> << [S[userid] EXCEPT !.last_active = t] >>]

\* mutant: a user without a record is given the record of another user
Mutant_get_session_shared(S, userid, t) ==
    LET Others == { w \in DOMAIN S : S[w].state # "absent" }
        key == IF S[userid].state = "absent" /\ Others # {}
               THEN CHOOSE w \in Others : TRUE ELSE userid
    IN  IF S[key].state = "absent" THEN [s |-> S, session |-> <<>>]
        ELSE IF t - S[key].last_active > SESSION_TIMEOUT
             THEN [s |-> Pop(S, key), session |-> <<>>]
        ELSE [s |-> S, session |-> <<S[key]>>]

\* returns the store after the call and the session found (optional)
_get_session(S, userid, t) ==
    IF S[userid].state = "absent" THEN [s |-> S, session |-> <<>>]
    ELSE IF t - S[userid].last_active > SESSION_TIMEOUT
         THEN [s |-> Pop(S, userid), session |-> <<>>]
    ELSE [s |-> S, session |-> <<S[userid]>>]

\* mutant: the new dict is merged into the stored one (a key it lacks is kept)
Mutant_update_session_merges(S, userid, session_data, t) ==
    [S EXCEPT ![userid] =
        [state |-> session_data.state,
         data |-> IF session_data.data = <<>> THEN S[userid].data ELSE session_data.data,
         last_active |-> t]]

_update_session(S, userid, session_data, t) ==
    [S EXCEPT ![userid] =
        [state |-> session_data.state, data |-> session_data.data, last_active |-> t]]

\* one post_message / post_medias_message call appended to the event's output
post_message(out, tx, kind, to, body) ==
    Append(out, [kind |-> kind, to |-> to, body |-> body, ok |-> ~tx[Len(out) + 1]])

\* one post_medias_message call: a notification title and a list of cards
post_medias_message(out, tx, kind, to, title, medias) ==
    Append(out, [kind |-> kind, to |-> to, title |-> title, body |-> medias,
                 ok |-> ~tx[Len(out) + 1]])

\* the last call raised
Failed(out) == ~out[Len(out)].ok

Result(S, out, srch, dls, exc) ==
    [s |-> S, out |-> out, searched |-> srch, downloaded |-> dls, raised |-> exc]

(* --------------------------- response formatter ------------------------- *)

EmptyData ==
    [songs |-> <<>>, query |-> <<>>, timestamp |-> <<>>, current_page |-> <<>>,
     selected_song |-> <<>>]

\* the cards of a listing: each shows its number in the whole list and its track
medias_list(songs, start_idx) ==
    [i \in 1..Len(songs) |-> [no |-> start_idx + i, id |-> songs[i].id]]

\* title of the search response: the keyword, the number of tracks found and
\* the "/n <number>" instruction
main_title(search_query, total_songs) ==
    [query |-> search_query, total |-> total_songs, page |-> <<>>,
     text |-> {"found", "reply_with_number"}]

\* title of a page: as main_title, with "page p of total_pages"
page_title(search_query, total_songs, page, total_pages) ==
    [query |-> search_query, total |-> total_songs, page |-> <<page + 1, total_pages>>,
     text |-> {"found", "page_of_pages", "reply_with_number"}]

\* mutant: the "next page" hint is also put on the last page
Mutant_format_song_list_page_hints(userid, songs, page) ==
    LET total_songs == Len(songs)
        total_pages == (total_songs + PAGE_SIZE - 1) \div PAGE_SIZE
        start_idx == page * PAGE_SIZE
        end_idx == IF start_idx + PAGE_SIZE < total_songs
                   THEN start_idx + PAGE_SIZE ELSE total_songs
    IN  [header |-> [total |-> total_songs, page |-> page + 1, pages |-> total_pages],
         lines |-> [k \in 1..(end_idx - start_idx) |->
                       [no |-> start_idx + k, id |-> songs[start_idx + k].id]],
         hints |-> IF total_pages > 1
                   THEN (IF page > 0 THEN <<"previous_page_hint">> ELSE <<>>)
                        \o (IF page <= total_pages - 1 THEN <<"next_page_hint">> ELSE <<>>)
                   ELSE <<>>,
         footer |-> "reply_with_number"]

\* the text of one page: the header, one numbered line per track of the page,
\* the navigation hints and the "/n <number>" instruction
_format_song_list_page(userid, songs, page) ==
    LET total_songs == Len(songs)
        total_pages == (total_songs + PAGE_SIZE - 1) \div PAGE_SIZE
        start_idx == page * PAGE_SIZE
        end_idx == IF start_idx + PAGE_SIZE < total_songs
                   THEN start_idx + PAGE_SIZE ELSE total_songs
    IN  [header |-> [total |-> total_songs, page |-> page + 1, pages |-> total_pages],
         lines |-> [k \in 1..(end_idx - start_idx) |->
                       [no |-> start_idx + k, id |-> songs[start_idx + k].id]],
         hints |-> IF total_pages > 1
                   THEN (IF page > 0 THEN <<"previous_page_hint">> ELSE <<>>)
                        \o (IF page < total_pages - 1 THEN <<"next_page_hint">> ELSE <<>>)
                   ELSE <<>>,
         footer |-> "reply_with_number"]

\* quality_options.get(quality_code, quality_options[DEFAULT_QUALITY])["name"]
quality_name(quality_code) ==
    LET known == { i \in 1..Len(quality_options) : quality_options[i].code = quality_code }
        default == CHOOSE i \in 1..Len(quality_options) :
                       quality_options[i].code = DEFAULT_QUALITY
    IN  IF known # {} THEN quality_options[CHOOSE i \in known : TRUE].name
        ELSE quality_options[default].name

\* data.quality_name of the download result: the tier the service used
served_quality_name(dl, quality_code) ==
    IF dl = "ok_substituted" THEN quality_options[1].name ELSE quality_name(quality_code)

\* the numbered entries of the quality menu, in catalog order
_format_quality_list == [i \in 1..Len(quality_options) |-> quality_options[i].name]

\* mutant: the search result is merged into the stored data (dict.update)
\* instead of replacing it
Mutant_send_song_list_merges(S, e, search_query, songs, tx, out, t) ==
    LET userid == Resolve(e)
        session_data ==
            [state |-> "waiting_for_song_choice",
             data |-> << [Get(S[userid].data, EmptyData)
                              EXCEPT !.songs = songs, !.query = <<search_query>>] >>]
        S1 == _update_session(S, userid, session_data, t)
        o == post_medias_message(out, tx, "song_list", userid,
                                 main_title(search_query, Len(songs)),
                                 medias_list(songs, 0))
    IN  Result(S1, o, <<>>, <<>>, Failed(o))

\* stores the search session, then sends every song as a media card
_send_song_list_as_media_card(S, e, search_query, songs, tx, out, t) ==
    LET userid == Resolve(e)
    IN  IF songs = <<>>
        THEN LET o == post_message(out, tx, "no_results", userid, <<>>)
             IN  Result(S, o, <<>>, <<>>, Failed(o))
        ELSE LET session_data ==
                     [state |-> "waiting_for_song_choice",
                      data |-> << [EmptyData EXCEPT !.songs = songs,
                                                    !.query = <<search_query>>] >>]
                 S1 == _update_session(S, userid, session_data, t)
                 o == post_medias_message(out, tx, "song_list", userid,
                                          main_title(search_query, Len(songs)),
                                          medias_list(songs, 0))
             IN  Result(S1, o, <<>>, <<>>, Failed(o))

\* stores the paged session (with its timestamp), then sends the page's cards
_send_song_list_page_as_media_card(S, e, search_query, songs, page, tx, out, t) ==
    LET userid == Resolve(e)
        total_songs == Len(songs)
        total_pages == (total_songs + PAGE_SIZE - 1) \div PAGE_SIZE
        start_idx == page * PAGE_SIZE
        end_idx == IF start_idx + PAGE_SIZE < total_songs
                   THEN start_idx + PAGE_SIZE ELSE total_songs
        page_songs == SubSeq(songs, start_idx + 1, end_idx)
    IN  IF page_songs = <<>>
        THEN LET o == post_message(out, tx, "no_results", userid, <<>>)
             IN  Result(S, o, <<>>, <<>>, Failed(o))
        ELSE LET session_data ==
                     [state |-> "waiting_for_song_choice",
                      data |-> << [EmptyData EXCEPT !.songs = songs,
                                                    !.timestamp = <<t>>,
                                                    !.current_page = <<page>>,
                                                    !.query = <<search_query>>] >>]
                 S1 == _update_session(S, userid, session_data, t)
                 o == post_medias_message(out, tx, "song_page", userid,
                                          page_title(search_query, total_songs, page,
                                                     total_pages),
                                          medias_list(page_songs, start_idx))
             IN  Result(S1, o, <<>>, <<>>, Failed(o))

(* ------------------------------ dispatcher ------------------------------ *)

\* mutant: no return after the media cards, the text message follows them
Mutant_handle_music_download_no_return(S, e, res, tx, t) ==
    LET userid == Resolve(e)
        command_args == Strip(e.arg_str)
        call == [keyword |-> command_args, result |-> res]
        cards == _send_song_list_as_media_card(S, e, command_args, res.data, tx, <<>>, t)
        o == post_message(IF cards.raised THEN <<>> ELSE cards.out, tx,
                          "search_failed", userid, <<>>)
    IN  IF userid = NoId THEN Result(S, <<>>, <<>>, <<>>, FALSE)
        ELSE IF command_args = <<>>
        THEN Result(S, post_message(<<>>, tx, "prompt_keyword", userid, <<>>),
                    <<>>, <<>>, FALSE)
        ELSE Result(IF res.kind = "ok" /\ res.data # <<>> THEN cards.s ELSE S,
                    o, <<call>>, <<>>, FALSE)

\* mutant: a search that failed is made a second time before it is reported
Mutant_handle_music_download_retries(S, e, res, tx, t) ==
    LET userid == Resolve(e)
        command_args == Strip(e.arg_str)
        call == [keyword |-> command_args, result |-> res]
        calls == IF res.kind # "ok" THEN <<call, call>> ELSE <<call>>
        attempt ==
            IF res.kind # "ok"
            THEN LET o == post_message(<<>>, tx, "search_failed", userid, <<>>)
                 IN  Result(S, o, <<>>, <<>>, Failed(o))
            ELSE IF res.data = <<>>
            THEN LET o == post_message(<<>>, tx, "no_results", userid, <<>>)
                 IN  Result(S, o, <<>>, <<>>, Failed(o))
            ELSE _send_song_list_as_media_card(S, e, command_args, res.data, tx, <<>>, t)
    IN  IF userid = NoId THEN Result(S, <<>>, <<>>, <<>>, FALSE)
        ELSE IF command_args = <<>>
        THEN Result(S, post_message(<<>>, tx, "prompt_keyword", userid, <<>>),
                    <<>>, <<>>, FALSE)
        ELSE IF attempt.raised
        THEN Result(attempt.s, post_message(attempt.out, tx, "search_error", userid, <<>>),
                    calls, <<>>, FALSE)
        ELSE Result(attempt.s, attempt.out, calls, <<>>, FALSE)

\* /y: search and store the result list
_handle_music_download(S, e, res, tx, t) ==
    LET userid == Resolve(e)
        command_args == Strip(e.arg_str)
        call == [keyword |-> command_args, result |-> res]
        attempt ==
            IF res.kind # "ok"
            THEN LET o == post_message(<<>>, tx, "search_failed", userid, <<>>)
                 IN  Result(S, o, <<>>, <<>>, Failed(o))
            ELSE IF res.data = <<>>
            THEN LET o == post_message(<<>>, tx, "no_results", userid, <<>>)
                 IN  Result(S, o, <<>>, <<>>, Failed(o))
            ELSE _send_song_list_as_media_card(S, e, command_args, res.data, tx, <<>>, t)
    IN  IF userid = NoId THEN Result(S, <<>>, <<>>, <<>>, FALSE)
        ELSE IF command_args = <<>>
        THEN Result(S, post_message(<<>>, tx, "prompt_keyword", userid, <<>>),
                    <<>>, <<>>, FALSE)
        ELSE IF attempt.raised
        THEN \* except Exception: one more message, whose failure is only logged
             Result(attempt.s, post_message(attempt.out, tx, "search_error", userid, <<>>),
                    <<call>>, <<>>, FALSE)
        ELSE Result(attempt.s, attempt.out, <<call>>, <<>>, FALSE)

\* mutant: the reset to idle keeps the data of the stored session
Mutant_download_keeps_data(S, e, selected_song, quality_code, dl, tx, t) ==
    LET userid == Resolve(e)
        S1 == _update_session(S, userid, [state |-> "idle", data |-> S[userid].data], t)
        call == [song_id |-> ToStr(selected_song.id), quality |-> quality_code,
                 result |-> dl]
        o == post_message(<<>>, tx,
                          IF Succeeded(dl) THEN "download_ok" ELSE "download_failed",
                          userid, <<quality_name(quality_code)>>)
    IN  Result(S1, o, <<>>, <<call>>, Failed(o))

\* mutant: the "download started" text is sent as a message of its own before
\* the download, the outcome in a second one
Mutant_download_announces(S, e, selected_song, quality_code, dl, tx, t) ==
    LET userid == Resolve(e)
        S1 == _update_session(S, userid, [state |-> "idle", data |-> <<>>], t)
        call == [song_id |-> ToStr(selected_song.id), quality |-> quality_code,
                 result |-> dl]
        o1 == post_message(<<>>, tx, "download_started", userid, <<>>)
        o2 == post_message(o1, tx,
                           IF Succeeded(dl) THEN "download_ok" ELSE "download_failed",
                           userid, <<quality_name(quality_code)>>)
    IN  IF Failed(o1) THEN Result(S1, o1, <<>>, <<>>, TRUE)
        ELSE Result(S1, o2, <<>>, <<call>>, Failed(o2))

\* resets the session to idle, calls the catalog download, reports the outcome
\* in one text that names the track and the tier asked for
_download_song_with_quality(S, e, selected_song, quality_code, dl, tx, t) ==
    LET userid == Resolve(e)
        S1 == _update_session(S, userid, [state |-> "idle", data |-> <<>>], t)
        call == [song_id |-> ToStr(selected_song.id), quality |-> quality_code,
                 result |-> dl]
        o == post_message(<<>>, tx,
                          IF Succeeded(dl) THEN "download_ok" ELSE "download_failed",
                          userid, <<quality_name(quality_code)>>)
    IN  Result(S1, o, <<>>, <<call>>, Failed(o))

\* /n in waiting_for_quality_choice
_handle_quality_selection(S, e, selected_song, dl, tx, t) ==
    LET userid == Resolve(e)
        command_args == Strip(e.arg_str)
        parsed == ParseInt(command_args)
        quality_index == parsed[1] - 1
    IN  IF parsed = <<>>
        THEN LET o == post_message(<<>>, tx, "quality_invalid", userid, <<>>)
             IN  Result(S, o, <<>>, <<>>, Failed(o))
        ELSE IF 0 <= quality_index /\ quality_index < Len(quality_options)
        THEN LET S1 == _update_session(S, userid, [state |-> "idle", data |-> <<>>], t)
             IN  _download_song_with_quality(S1, e, selected_song,
                                             quality_options[quality_index + 1].code,
                                             dl, tx, t)
        ELSE LET o == post_message(<<>>, tx, "quality_out_of_range", userid, <<>>)
             IN  Result(S, o, <<>>, <<>>, Failed(o))

\* mutant: the page token is stored as the keyword of the session
Mutant_SelectPage_query(S, e, data, forward, tx, t) ==
    LET userid == Resolve(e)
        command_args == Strip(e.arg_str)
        songs == data.songs
        current_page == Get(data.current_page, 0)
        total_pages == (Len(songs) + PAGE_SIZE - 1) \div PAGE_SIZE
        page == IF forward THEN current_page + 1 ELSE current_page - 1
        moves == IF forward THEN current_page < total_pages - 1 ELSE current_page > 0
        data1 == [data EXCEPT !.current_page = <<page>>]
        S1 == _update_session(S, userid,
                              [state |-> "waiting_for_song_choice", data |-> <<data1>>], t)
    IN  IF moves
        THEN _send_song_list_page_as_media_card(S1, e, command_args,
                                                songs, page, tx, <<>>, t)
        ELSE LET o == post_message(<<>>, tx,
                                   IF forward THEN "last_page" ELSE "first_page",
                                   userid, <<>>)
             IN  Result(S, o, <<>>, <<>>, Failed(o))

\* mutant: the page is turned forward without the test against the last page
Mutant_SelectPage_unbounded(S, e, data, forward, tx, t) ==
    LET userid == Resolve(e)
        command_args == Strip(e.arg_str)
        songs == data.songs
        current_page == Get(data.current_page, 0)
        total_pages == (Len(songs) + PAGE_SIZE - 1) \div PAGE_SIZE
        page == IF forward THEN current_page + 1 ELSE current_page - 1
        moves == IF forward THEN TRUE ELSE current_page > 0
        data1 == [data EXCEPT !.current_page = <<page>>]
        S1 == _update_session(S, userid,
                              [state |-> "waiting_for_song_choice", data |-> <<data1>>], t)
    IN  IF moves
        THEN _send_song_list_page_as_media_card(S1, e, Get(data.query, command_args),
                                                songs, page, tx, <<>>, t)
        ELSE LET o == post_message(<<>>, tx,
                                   IF forward THEN "last_page" ELSE "first_page",
                                   userid, <<>>)
             IN  Result(S, o, <<>>, <<>>, Failed(o))

\* /n n and /n p in waiting_for_song_choice
SelectPage(S, e, data, forward, tx, t) ==
    LET userid == Resolve(e)
        command_args == Strip(e.arg_str)
        songs == data.songs
        current_page == Get(data.current_page, 0)
        total_pages == (Len(songs) + PAGE_SIZE - 1) \div PAGE_SIZE
        page == IF forward THEN current_page + 1 ELSE current_page - 1
        moves == IF forward THEN current_page < total_pages - 1 ELSE current_page > 0
        data1 == [data EXCEPT !.current_page = <<page>>]
        S1 == _update_session(S, userid,
                              [state |-> "waiting_for_song_choice", data |-> <<data1>>], t)
    IN  IF moves
        THEN _send_song_list_page_as_media_card(S1, e, Get(data.query, command_args),
                                                songs, page, tx, <<>>, t)
        ELSE LET o == post_message(<<>>, tx,
                                   IF forward THEN "last_page" ELSE "first_page",
                                   userid, <<>>)
             IN  Result(S, o, <<>>, <<>>, Failed(o))

\* mutant: the quality choice is awaited without the chosen track being stored
Mutant_SelectNumber_forgets(S, e, data, dq, dl, tx, t) ==
    LET userid == Resolve(e)
        command_args == Strip(e.arg_str)
        songs == data.songs
        parsed == ParseInt(command_args)
        song_index == parsed[1] - 1
    IN  IF parsed = <<>>
        THEN LET o == post_message(<<>>, tx, "invalid_number", userid, <<>>)
             IN  Result(S, o, <<>>, <<>>, Failed(o))
        ELSE IF 0 <= song_index /\ song_index < Len(songs)
        THEN LET selected_song == songs[song_index + 1]
                 default_quality_ == IF dq # "" THEN dq ELSE DEFAULT_QUALITY
             IN  IF default_quality_ = "ask"
                 THEN LET data1 == [data EXCEPT !.selected_song = <<selected_song>>]
                          S1 == _update_session(S, userid,
                                    [state |-> "waiting_for_quality_choice",
                                     data |-> <<data>>], t)
                          o == post_message(<<>>, tx, "quality_menu", userid,
                                            _format_quality_list)
                      IN  Result(S1, o, <<>>, <<>>, Failed(o))
                 ELSE _download_song_with_quality(S, e, selected_song, default_quality_,
                                                  dl, tx, t)
        ELSE LET o == post_message(<<>>, tx, "out_of_range", userid, <<>>)
             IN  Result(S, o, <<>>, <<>>, Failed(o))

\* mutant: a number out of range stamps the session before it is rejected
Mutant_SelectNumber_touches(S, e, data, dq, dl, tx, t) ==
    LET userid == Resolve(e)
        command_args == Strip(e.arg_str)
        songs == data.songs
        parsed == ParseInt(command_args)
        song_index == parsed[1] - 1
    IN  IF parsed = <<>>
        THEN LET o == post_message(<<>>, tx, "invalid_number", userid, <<>>)
             IN  Result(S, o, <<>>, <<>>, Failed(o))
        ELSE IF 0 <= song_index /\ song_index < Len(songs)
        THEN LET selected_song == songs[song_index + 1]
                 default_quality_ == IF dq # "" THEN dq ELSE DEFAULT_QUALITY
             IN  IF default_quality_ = "ask"
                 THEN LET data1 == [data EXCEPT !.selected_song = <<selected_song>>]
                          S1 == _update_session(S, userid,
                                    [state |-> "waiting_for_quality_choice",
                                     data |-> <<data1>>], t)
                          o == post_message(<<>>, tx, "quality_menu", userid,
                                            _format_quality_list)
                      IN  Result(S1, o, <<>>, <<>>, Failed(o))
                 ELSE _download_song_with_quality(S, e, selected_song, default_quality_,
                                                  dl, tx, t)
        ELSE LET o == post_message(<<>>, tx, "out_of_range", userid, <<>>)
             IN  Result(_update_session(S, userid, S[userid], t), o, <<>>, <<>>, Failed(o))

\* /n <number> in waiting_for_song_choice
SelectNumber(S, e, data, dq, dl, tx, t) ==
    LET userid == Resolve(e)
        command_args == Strip(e.arg_str)
        songs == data.songs
        parsed == ParseInt(command_args)
        song_index == parsed[1] - 1
    IN  IF parsed = <<>>
        THEN LET o == post_message(<<>>, tx, "invalid_number", userid, <<>>)
             IN  Result(S, o, <<>>, <<>>, Failed(o))
        ELSE IF 0 <= song_index /\ song_index < Len(songs)
        THEN LET selected_song == songs[song_index + 1]
                 default_quality_ == IF dq # "" THEN dq ELSE DEFAULT_QUALITY
             IN  IF default_quality_ = "ask"
                 THEN LET data1 == [data EXCEPT !.selected_song = <<selected_song>>]
                          S1 == _update_session(S, userid,
                                    [state |-> "waiting_for_quality_choice",
                                     data |-> <<data1>>], t)
                          o == post_message(<<>>, tx, "quality_menu", userid,
                                            _format_quality_list)
                      IN  Result(S1, o, <<>>, <<>>, Failed(o))
                 ELSE _download_song_with_quality(S, e, selected_song, default_quality_,
                                                  dl, tx, t)
        ELSE LET o == post_message(<<>>, tx, "out_of_range", userid, <<>>)
             IN  Result(S, o, <<>>, <<>>, Failed(o))

\* the second validity check of /n: data["timestamp"], 0 when the key is absent
TimestampExpired(data, t) == t - Get(data.timestamp, 0) > SESSION_TIMEOUT

\* /n: selection, paging or quality choice, by the state of the stored session
_handle_music_select(S, e, dq, dl, tx, t) ==
    LET userid == Resolve(e)
        command_args == Strip(e.arg_str)
        got == _get_session(S, userid, t)
        session == got.session[1]
        data == Get(session.data, EmptyData)
        state == session.state
        \* try: post_message; pop   except: log
        notice(kind) ==
            LET o == post_message(<<>>, tx, kind, userid, <<>>)
            IN  Result(IF Failed(o) THEN got.s ELSE Pop(got.s, userid),
                       o, <<>>, <<>>, FALSE)
    IN  IF userid = NoId THEN Result(S, <<>>, <<>>, <<>>, FALSE)
        ELSE IF command_args = <<>>
        THEN Result(S, post_message(<<>>, tx, "prompt_select", userid, <<>>),
                    <<>>, <<>>, FALSE)
        ELSE IF got.session = <<>>
        THEN Result(got.s, post_message(<<>>, tx, "no_session", userid, <<>>),
                    <<>>, <<>>, FALSE)
        ELSE IF TimestampExpired(data, t) THEN notice("expired")
        ELSE IF state = "waiting_for_quality_choice" /\ data.selected_song # <<>>
        THEN _handle_quality_selection(got.s, e, data.selected_song[1], dl, tx, t)
        ELSE IF state \notin {"waiting_for_quality_choice", "waiting_for_song_choice"}
        THEN notice("bad_state")
        ELSE IF Lower(command_args) = <<"n">>
        THEN SelectPage(got.s, e, data, TRUE, tx, t)
        ELSE IF Lower(command_args) = <<"p">>
        THEN SelectPage(got.s, e, data, FALSE, tx, t)
        ELSE SelectNumber(got.s, e, data, dq, dl, tx, t)

\* mutant: the commands are handled while the plugin is disabled
Mutant_Dispatch_ignores_enabled(S, en, dq, e, res, dl, tx, t) ==
    IF e.action = "netease_music_download"
    THEN _handle_music_download(S, e, res, tx, t)
    ELSE IF e.action = "netease_music_select"
    THEN _handle_music_select(S, e, dq, dl, tx, t)
    ELSE Result(S, <<>>, <<>>, <<>>, FALSE)

\* the PluginAction entry point
Dispatch(S, en, dq, e, res, dl, tx, t) ==
    IF ~en THEN Result(S, <<>>, <<>>, <<>>, FALSE)
    ELSE IF e.action = "netease_music_download"
    THEN _handle_music_download(S, e, res, tx, t)
    ELSE IF e.action = "netease_music_select"
    THEN _handle_music_select(S, e, dq, dl, tx, t)
    ELSE Result(S, <<>>, <<>>, <<>>, FALSE)

(* ------------------------------- actions -------------------------------- *)

\* init_plugin(config): the configuration is read once, the store is empty
Init ==
    /\ sessions = [u \in Users |-> NoSession]
    /\ enabled \in BOOLEAN
    /\ default_quality \in QualityConfigs
    /\ now \in Times
    /\ ev = NoEvent
    /\ sent = <<>>
    /\ searched = <<>>
    /\ downloaded = <<>>
    /\ raised = FALSE
    /\ returned = NoReturn
    /\ running = NoRunning

command_action(e, res, dl, tx) ==
    LET r == Dispatch(sessions, enabled, default_quality, e, res, dl, tx, now)
    IN  /\ sessions' = r.s
        /\ ev' = e
        /\ sent' = r.out
        /\ searched' = r.searched
        /\ downloaded' = r.downloaded
        /\ raised' = r.raised
        /\ UNCHANGED <<enabled, default_quality, now, returned, running>>

\* the UserMessage entry point: free text is left to the host, nothing is done
handle_user_message(e) ==
    /\ ev' = e
    /\ sent' = <<>>
    /\ searched' = <<>>
    /\ downloaded' = <<>>
    /\ raised' = FALSE
    /\ UNCHANGED <<sessions, enabled, default_quality, now, returned, running>>

\* plugin shutdown: self._sessions.clear()
stop_service ==
    /\ sessions' = [u \in Users |-> NoSession]
    /\ ev' = [NoEvent EXCEPT !.action = "stop_service"]
    /\ sent' = <<>>
    /\ searched' = <<>>
    /\ downloaded' = <<>>
    /\ raised' = FALSE
    /\ UNCHANGED <<enabled, default_quality, now, returned, running>>

\* mutant: a background sweep removes the sessions that expire as time passes
Mutant_Tick_sweeps ==
    /\ \E t \in Times : t > now /\ now' = t
    /\ sessions' = [u \in Users |->
                       IF sessions[u].state # "absent"
                          /\ now' - sessions[u].last_active > SESSION_TIMEOUT
                       THEN NoSession ELSE sessions[u]]
    /\ ev' = NoEvent
    /\ sent' = <<>>
    /\ searched' = <<>>
    /\ downloaded' = <<>>
    /\ raised' = FALSE
    /\ UNCHANGED <<enabled, default_quality, returned, running>>

\* time passes between two events
Tick ==
    /\ \E t \in Times : t > now /\ now' = t
    /\ ev' = NoEvent
    /\ sent' = <<>>
    /\ searched' = <<>>
    /\ downloaded' = <<>>
    /\ raised' = FALSE
    /\ UNCHANGED <<sessions, enabled, default_quality, returned, running>>

\* only the first send of a /n event can be reached
FirstSend == { tx \in Transport : ~tx[2] }

NoSearch == [kind |-> "error", data |-> <<>>]

Next ==
    \/ \E e \in DownloadEvents, tx \in Transport :
         \E res \in SearchOutcomes(Strip(e.arg_str)) : command_action(e, res, "ok", tx)
    \/ \E e \in BareDownloadEvents, tx \in FirstSend : command_action(e, NoSearch, "ok", tx)
    \/ \E e \in SelectEvents, tx \in FirstSend, dl \in DownloadOutcomes :
         command_action(e, NoSearch, dl, tx)
    \/ \E e \in IgnoredEvents : command_action(e, NoSearch, "ok", <<FALSE, FALSE>>)
    \/ \E e \in CallbackEvents : command_action(e, NoSearch, "ok", <<FALSE, FALSE>>)
    \/ \E e \in UserMessages : handle_user_message(e)
    \/ stop_service
    \/ Tick

Spec == Init /\ [][Next]_vars

(* ------------------- the session store, call by call -------------------- *)

\* the session dicts the handlers pass to _update_session
SessionData ==
    { [state |-> "idle", data |-> <<>>],
      [state |-> "waiting_for_song_choice",
       data |-> << [EmptyData EXCEPT !.songs = Songs(200, 2), !.query = << <<"b">> >>] >>],
      [state |-> "waiting_for_quality_choice",
       data |-> << [EmptyData EXCEPT !.songs = Songs(200, 2), !.query = << <<"b">> >>,
                                     !.selected_song = << [id |-> 201] >>] >>] }

\* a call of a store operation: its name, its key and its other arguments
StoreCall(op, userid, args) == Event(op, userid, NoId, args)

\* one call of _get_session while time.time() is t
GetSession(userid, t) ==
    LET got == _get_session(sessions, userid, t)
    IN  /\ sessions' = got.s
        /\ now' = t
        /\ ev' = StoreCall("_get_session", userid, <<>>)
        /\ returned' = [found |-> sessions[userid].state # "absent", value |-> got.session]
        /\ UNCHANGED <<enabled, default_quality, sent, searched, downloaded, raised, running>>

\* one call of _update_session while time.time() is t
UpdateSession(userid, session_data, t) ==
    /\ sessions' = _update_session(sessions, userid, session_data, t)
    /\ now' = t
    /\ ev' = StoreCall("_update_session", userid, <<session_data>>)
    /\ returned' = [found |-> sessions[userid].state # "absent", value |-> <<>>]
    /\ UNCHANGED <<enabled, default_quality, sent, searched, downloaded, raised, running>>

\* one self._sessions.pop(userid, None)
PopSession(userid) ==
    /\ sessions' = Pop(sessions, userid)
    /\ raised' = dict_pop(sessions, userid, TRUE).raised
    /\ ev' = StoreCall("pop", userid, <<>>)
    /\ returned' = [found |-> sessions[userid].state # "absent", value |-> <<>>]
    /\ UNCHANGED <<enabled, default_quality, now, sent, searched, downloaded, running>>

StoreInit == Init /\ enabled /\ default_quality = ""

\* the calls in any order, the clock of each call chosen freely
StoreNext ==
    \/ \E userid \in Users, t \in Times : GetSession(userid, t)
    \/ \E userid \in Users, session_data \in SessionData, t \in Times :
         UpdateSession(userid, session_data, t)
    \/ \E userid \in Users : PopSession(userid)

StoreSpec == StoreInit /\ [][StoreNext]_vars

(* ------------------------ the page text, call by call -------------------- *)

\* number of pages of the longest list formatted
MaxPages == 3

\* the lists formatted: 1 to MaxPages * PAGE_SIZE tracks
FormatLists == { Songs(100, n) : n \in 1..(MaxPages * PAGE_SIZE) }

\* one call of _format_song_list_page
FormatSongListPage(userid, songs, page) ==
    /\ ev' = StoreCall("_format_song_list_page", userid, <<songs, page>>)
    /\ returned' = [found |-> FALSE, value |-> <<_format_song_list_page(userid, songs, page)>>]
    /\ sent' = <<>>
    /\ searched' = <<>>
    /\ downloaded' = <<>>
    /\ raised' = FALSE
    /\ UNCHANGED <<sessions, enabled, default_quality, now, running>>

\* one call of _send_song_list_page_as_media_card, the transport working
SendSongListPage(userid, songs, page) ==
    LET e == StoreCall("_send_song_list_page_as_media_card", userid, <<songs, page>>)
        r == _send_song_list_page_as_media_card(sessions, e, <<"a">>, songs, page, Working,
                                                <<>>, now)
    IN  /\ sessions' = r.s
        /\ ev' = e
        /\ sent' = r.out
        /\ searched' = r.searched
        /\ downloaded' = r.downloaded
        /\ raised' = r.raised
        /\ returned' = NoReturn
        /\ UNCHANGED <<enabled, default_quality, now, running>>

FormatInit == Init /\ enabled /\ default_quality = "" /\ now = 0

\* every list, every page it has
FormatNext ==
    \E songs \in FormatLists :
        \E page \in 0..((Len(songs) + PAGE_SIZE - 1) \div PAGE_SIZE - 1) :
            \/ FormatSongListPage("u1", songs, page)
            \/ SendSongListPage("u1", songs, page)

FormatSpec == FormatInit /\ [][FormatNext]_vars

(* ------------------ one user, two handlers, step by step ----------------- *)

RaceUser == "u1"

\* the two deliveries: a page turn or the choice of the first track
RaceSelectEvents ==
    { Event("netease_music_select", RaceUser, NoId, s) : s \in {<<"n">>, <<"p">>, <<"1">>} }

\* the store seen through the references: the stored session holds the dict
\* object ref, whoever changed it
Deref(S, heap, ref) ==
    [S EXCEPT ![RaceUser].data = IF ref = 0 THEN <<>> ELSE <<heap[ref]>>]

\* a handler ran as a whole and left the store S1: a data dict it stored is a new
\* object
Whole(h, e, S1) ==
    LET changed == S1[RaceUser] # sessions[RaceUser]
        fresh == changed /\ S1[RaceUser].data # <<>>
        heap1 == IF fresh THEN Append(running.heap, S1[RaceUser].data[1]) ELSE running.heap
    IN  [running EXCEPT
            !.heap = heap1,
            !.ref = IF fresh THEN Len(heap1) ELSE IF changed THEN 0 ELSE @,
            !.last = IF changed THEN h ELSE @,
            !.frames[h] = [NoFrame EXCEPT !.pc = "done", !.e = e,
                                          !.own = IF changed THEN <<S1[RaceUser]>> ELSE <<>>]]

\* mutant: the session is left as it is until the download has returned
Mutant_BeginDownload_keeps_session(h, e, selected_song, quality_code) ==
    /\ running' = [running EXCEPT
                      !.frames[h] =
                          [NoFrame EXCEPT
                              !.pc = "downloading", !.e = e,
                              !.session = running.frames[h].session,
                              !.call = << [selected_song |-> selected_song,
                                           quality_code |-> quality_code] >>]]
    /\ sent' = <<>>
    /\ downloaded' = <<>>
    /\ UNCHANGED sessions

\* a download attempt up to the catalog call: the session is overwritten with
\* {"state": "idle"}; the call itself is the handler's next step
BeginDownload(h, e, selected_song, quality_code) ==
    LET userid == Resolve(e)
        S1 == _update_session(sessions, userid, [state |-> "idle", data |-> <<>>], now)
    IN  /\ sessions' = S1
        /\ running' = [running EXCEPT
                          !.ref = 0,
                          !.last = h,
                          !.frames[h] =
                              [NoFrame EXCEPT
                                  !.pc = "downloading", !.e = e,
                                  !.session = running.frames[h].session,
                                  !.own = <<S1[userid]>>,
                                  !.call = << [selected_song |-> selected_song,
                                               quality_code |-> quality_code] >>]]
        /\ sent' = <<>>
        /\ downloaded' = <<>>

\* the catalog download call and the report of its outcome
DownloadSong(h, dl) ==
    /\ running.frames[h].pc = "downloading"
    /\ LET f == running.frames[h]
           r == _download_song_with_quality(sessions, f.e, f.call[1].selected_song,
                                            f.call[1].quality_code, dl, Working, now)
       IN  /\ running' = [running EXCEPT !.frames[h].pc = "done"]
           /\ ev' = f.e
           /\ sent' = r.out
           /\ downloaded' = r.downloaded
    /\ searched' = <<>>
    /\ raised' = FALSE
    /\ UNCHANGED <<sessions, enabled, default_quality, now, returned>>

\* /y between two races: the session it stores holds a new data dict, the only
\* object left
RaceSearch(e, res) ==
    /\ \A h \in Handlers : running.frames[h].pc \in {"start", "done"}
    /\ LET r == Dispatch(sessions, enabled, default_quality, e, res, "ok", Working, now)
       IN  /\ sessions' = r.s
           /\ ev' = e
           /\ sent' = r.out
           /\ searched' = r.searched
           /\ downloaded' = r.downloaded
           /\ raised' = r.raised
           /\ running' = [NoRunning EXCEPT !.heap = r.s[RaceUser].data,
                                           !.ref = Len(r.s[RaceUser].data)]
    /\ UNCHANGED <<enabled, default_quality, now, returned>>

\* _handle_music_select up to the state check: the session is read and data,
\* songs and current_page are bound. A session in waiting_for_song_choice is
\* then handled step by step, a quality choice up to its download call; any
\* other case runs as a whole
ReadSession(h, e) ==
    /\ running.frames[h].pc = "start"
    /\ LET userid == Resolve(e)
           got == _get_session(sessions, userid, now)
           session == got.session[1]
           data == Get(session.data, EmptyData)
           stepwise == /\ enabled
                       /\ got.session # <<>>
                       /\ ~TimestampExpired(data, now)
                       /\ \/ session.state = "waiting_for_song_choice"
                          \/ /\ session.state = "waiting_for_quality_choice"
                             /\ data.selected_song = <<>>
           r == Dispatch(sessions, enabled, default_quality, e, NoSearch, "ok", Working, now)
       IN  IF stepwise
           THEN /\ running' = [running EXCEPT !.frames[h] =
                                  [NoFrame EXCEPT !.pc = "read", !.e = e,
                                                  !.data = running.ref,
                                                  !.session = got.session,
                                                  !.songs = data.songs,
                                                  !.current_page = Get(data.current_page, 0)]]
                /\ sent' = <<>>
                /\ downloaded' = <<>>
                /\ UNCHANGED sessions
           ELSE IF r.downloaded # <<>>
           THEN BeginDownload(h, e, data.selected_song[1], r.downloaded[1].quality)
           ELSE /\ running' = Whole(h, e, r.s)
                /\ sessions' = r.s
                /\ sent' = r.out
                /\ downloaded' = r.downloaded
    /\ ev' = e
    /\ searched' = <<>>
    /\ raised' = FALSE
    /\ UNCHANGED <<enabled, default_quality, now, returned>>

\* the branch taken on command_args, up to the call of _update_session:
\* data["current_page"] = ... or data["selected_song"] = ... changes the dict
\* object the handler holds, in place
MutateData(h) ==
    /\ running.frames[h].pc = "read"
    /\ LET f == running.frames[h]
           e == f.e
           userid == Resolve(e)
           command_args == Strip(e.arg_str)
           total_pages == (Len(f.songs) + PAGE_SIZE - 1) \div PAGE_SIZE
           forward == Lower(command_args) = <<"n">>
           paging == Lower(command_args) \in {<<"n">>, <<"p">>}
           moves == IF forward THEN f.current_page < total_pages - 1 ELSE f.current_page > 0
           page == IF forward THEN f.current_page + 1 ELSE f.current_page - 1
           parsed == ParseInt(command_args)
           song_index == parsed[1] - 1
           chosen == parsed # <<>> /\ 0 <= song_index /\ song_index < Len(f.songs)
           default_quality_ == IF default_quality # "" THEN default_quality
                               ELSE DEFAULT_QUALITY
           heap1 == IF paging
                    THEN [running.heap EXCEPT ![f.data].current_page = <<page>>]
                    ELSE [running.heap EXCEPT
                             ![f.data].selected_song = <<f.songs[song_index + 1]>>]
           done(S1, out, dls) ==
               /\ running' = [Whole(h, e, S1) EXCEPT !.frames[h].session = f.session]
               /\ sessions' = S1
               /\ sent' = out
               /\ downloaded' = dls
           notice(kind) == done(sessions, post_message(<<>>, Working, kind, userid, <<>>), <<>>)
       IN  /\ ev' = e
           /\ IF (paging /\ moves) \/ (~paging /\ chosen /\ default_quality_ = "ask")
              THEN /\ running' = [running EXCEPT !.heap = heap1,
                                                 !.frames[h].pc = "mutated"]
                   /\ sessions' = Deref(sessions, heap1, running.ref)
                   /\ sent' = <<>>
                   /\ downloaded' = <<>>
              ELSE IF paging
              THEN notice(IF forward THEN "last_page" ELSE "first_page")
              ELSE IF parsed = <<>> THEN notice("invalid_number")
              ELSE IF ~chosen THEN notice("out_of_range")
              ELSE BeginDownload(h, e, f.songs[song_index + 1], default_quality_)
    /\ searched' = <<>>
    /\ raised' = FALSE
    /\ UNCHANGED <<enabled, default_quality, now, returned>>

\* self._update_session(userid, {"state": ..., "data": data}): the new session
\* dict holds the dict object of the handler, as it is now
PutSession(h) ==
    /\ running.frames[h].pc = "mutated"
    /\ LET f == running.frames[h]
           command_args == Strip(f.e.arg_str)
           forward == Lower(command_args) = <<"n">>
           paging == Lower(command_args) \in {<<"n">>, <<"p">>}
           page == IF forward THEN f.current_page + 1 ELSE f.current_page - 1
           state == IF paging THEN "waiting_for_song_choice"
                    ELSE "waiting_for_quality_choice"
           read == Get(f.session[1].data, EmptyData)
           made == IF paging THEN [read EXCEPT !.current_page = <<page>>]
                   ELSE [read EXCEPT
                            !.selected_song = <<f.songs[ParseInt(command_args)[1]]>>]
           S1 == _update_session(sessions, Resolve(f.e),
                                 [state |-> state, data |-> <<running.heap[f.data]>>], now)
       IN  /\ sessions' = S1
           /\ running' = [running EXCEPT
                             !.ref = f.data,
                             !.last = h,
                             !.frames[h].pc = "put",
                             !.frames[h].own =
                                 << [state |-> state, data |-> <<made>>,
                                     last_active |-> now] >>]
           /\ ev' = f.e
    /\ sent' = <<>>
    /\ searched' = <<>>
    /\ downloaded' = <<>>
    /\ raised' = FALSE
    /\ UNCHANGED <<enabled, default_quality, now, returned>>

\* what follows _update_session: the page is sent (its sender stores a session
\* with a new data dict) or the quality menu is
SendResponse(h) ==
    /\ running.frames[h].pc = "put"
    /\ LET f == running.frames[h]
           e == f.e
           command_args == Strip(e.arg_str)
           forward == Lower(command_args) = <<"n">>
           paging == Lower(command_args) \in {<<"n">>, <<"p">>}
           page == IF forward THEN f.current_page + 1 ELSE f.current_page - 1
           r == IF paging
                THEN _send_song_list_page_as_media_card(
                         sessions, e, Get(running.heap[f.data].query, command_args),
                         f.songs, page, Working, <<>>, now)
                ELSE Result(sessions,
                            post_message(<<>>, Working, "quality_menu", Resolve(e),
                                         _format_quality_list),
                            <<>>, <<>>, FALSE)
           stored == r.out[1].kind = "song_page"
           heap1 == IF stored THEN Append(running.heap, r.s[Resolve(e)].data[1])
                    ELSE running.heap
       IN  /\ sessions' = r.s
           /\ running' = [running EXCEPT
                             !.heap = heap1,
                             !.ref = IF stored THEN Len(heap1) ELSE @,
                             !.last = IF stored THEN h ELSE @,
                             !.frames[h].pc = "done",
                             !.frames[h].own = IF stored THEN <<r.s[Resolve(e)]>> ELSE @]
           /\ ev' = e
           /\ sent' = r.out
    /\ searched' = <<>>
    /\ downloaded' = <<>>
    /\ raised' = FALSE
    /\ UNCHANGED <<enabled, default_quality, now, returned>>

RaceInit == Init /\ enabled /\ now = 0

RaceNext ==
    \/ \E e \in DownloadEvents : \E res \in SearchOutcomes(Strip(e.arg_str)) :
         RaceSearch(e, res)
    \/ \E h \in Handlers, e \in RaceSelectEvents : ReadSession(h, e)
    \/ \E h \in Handlers : MutateData(h)
    \/ \E h \in Handlers : PutSession(h)
    \/ \E h \in Handlers : SendResponse(h)
    \/ \E h \in Handlers, dl \in DownloadOutcomes : DownloadSong(h, dl)

RaceSpec == RaceInit /\ [][RaceNext]_vars

(* ------------------------- two users, interleaved ------------------------ *)

\* /y and /n events of both users; those of u2 carry u2 as primary id and u1
\* in the fallback field
MultiDownloadEvents ==
    { Event("netease_music_download", "u1", NoId, <<"a">>),
      Event("netease_music_download", "u2", "u1", <<"b">>) }

MultiSelectEvents ==
    { Event("netease_music_select", "u1", NoId, s) : s \in { <<"1">>, <<"n">> } }
      \cup { Event("netease_music_select", "u2", "u1", s) : s \in { <<"1">>, <<"n">> } }

\* the plugin enabled
MultiInit == Init /\ enabled

\* the events of the two users in any order; searches find tracks, downloads
\* succeed, the transport works
MultiNext ==
    \/ \E e \in MultiDownloadEvents :
         command_action(e, [kind |-> "ok", data |-> Catalog(Strip(e.arg_str))], "ok", Working)
    \/ \E e \in MultiSelectEvents : command_action(e, NoSearch, "ok", Working)
    \/ Tick

MultiSpec == MultiInit /\ [][MultiNext]_vars

(* ------------------------------- claims --------------------------------- *)

\* Idle in the sense of the specification: no record, or a record in state "idle"
IsIdle(s) == s.state \in {"absent", "idle"}

\* a record exists and its last_active is at most SESSION_TIMEOUT old at time t
Unexpired(s, t) == s.state # "absent" /\ t - s.last_active <= SESSION_TIMEOUT

Delivered(out) == SelectSeq(out, LAMBDA m : m.ok)

\* the step handles a /n command of a known user with a non-empty argument
SelectStep ==
    /\ enabled
    /\ ev'.action = "netease_music_select"
    /\ Resolve(ev') # NoId
    /\ Strip(ev'.arg_str) # <<>>

\* the step is SelectStep and its argument is the number k
SelectsNumber(k) == SelectStep /\ ParseInt(Strip(ev'.arg_str)) = <<k>>

\* the last event was a /y command of a known user that made a search call
Searched ==
    /\ enabled
    /\ ev.action = "netease_music_download"
    /\ Resolve(ev) # NoId
    /\ Len(searched) = 1

\* C1: a /n command with an argument is answered "expired" or "no session" if
\* and only if the user has no stored session or the stored session's
\* last_active is more than 300 seconds old; any session stored at most 300
\* seconds earlier (by /y included) is accepted.
C1_ExpiredIffLastActiveOld ==
    [][ SelectStep =>
          LET s == sessions[Resolve(ev')]
          IN  (sent'[1].kind \in {"expired", "no_session"})
                <=> (s.state = "absent" \/ now - s.last_active > SESSION_TIMEOUT) ]_vars

\* C2 (scenario E): with a concrete tier configured, /n k with 1 <= k <= N on
\* the unexpired session that a /y search stored calls download exactly once
\* with the k-th track's id and the configured tier, and the user is Idle.
C2_ScenarioE ==
    [][ \A k \in 1..MaxSongs :
          LET s == sessions[Resolve(ev')]
              d == Get(s.data, EmptyData)
          IN  ( /\ SelectsNumber(k)
                /\ default_quality \notin {"", "ask"}
                /\ s.state = "waiting_for_song_choice"
                /\ d.timestamp = <<>> /\ d.current_page = <<>>
                /\ Unexpired(s, now)
                /\ k <= Len(d.songs) )
              => ( /\ Len(downloaded') = 1
                   /\ downloaded'[1].song_id = ToStr(d.songs[k].id)
                   /\ downloaded'[1].quality = default_quality
                   /\ sessions'[Resolve(ev')].state = "idle" ) ]_vars

\* C3: every stored session in state "idle" holds no result list and no
\* selected track (a selected quality is never stored at all).
C3_IdleHoldsNothing ==
    \A u \in Users :
        sessions[u].state = "idle"
            => LET d == Get(sessions[u].data, EmptyData)
               IN  d.songs = <<>> /\ d.selected_song = <<>>

\* an idle record exists right after a download call
C3_Witness == \E u \in Users : sessions[u].state = "idle" /\ Len(downloaded) = 1

\* C4: while handling one event at most one response is delivered.
C4_AtMostOneResponse == Len(Delivered(sent)) <= 1

\* the first send raised and the message sent in its place was delivered
C4_Witness == Len(sent) = 2 /\ sent[2].ok /\ C4_AtMostOneResponse

\* C5: after a /y whose search returned N >= 1 tracks the user's session is
\* waiting_for_song_choice at page 0 with exactly the returned tracks, the
\* (stripped) argument as keyword and no selected track.
C5_SearchStoresFreshSession ==
    (Searched /\ searched[1].result.kind = "ok" /\ searched[1].result.data # <<>>)
        => LET s == sessions[Resolve(ev)]
               d == Get(s.data, EmptyData)
           IN  /\ s.state = "waiting_for_song_choice"
               /\ d.songs = searched[1].result.data
               /\ d.query = <<Strip(ev.arg_str)>>
               /\ Get(d.current_page, 0) = 0
               /\ d.selected_song = <<>>
               /\ s.last_active = now

\* a two-page result list has just been stored by a /y given with padding
C5_Witness ==
    /\ Searched
    /\ searched[1].result.kind = "ok"
    /\ Len(searched[1].result.data) = 2
    /\ ev.arg_str # Strip(ev.arg_str)
    /\ sessions[Resolve(ev)].state = "waiting_for_song_choice"

\* C6: after a search that failed or returned no track, an explanatory message
\* was sent and the user's session is Idle.
C6_FailedSearchLeavesIdle ==
    (Searched /\ (searched[1].result.kind # "ok" \/ searched[1].result.data = <<>>))
        => /\ \E i \in 1..Len(sent) :
                 sent[i].kind \in {"search_failed", "no_results", "search_error"}
           /\ IsIdle(sessions[Resolve(ev)])

\* C7: with "ask" configured, /n k with 1 <= k <= N on an unexpired
\* waiting_for_song_choice session records the k-th track, moves to
\* waiting_for_quality_choice, sends the 7-entry quality menu, downloads nothing.
C7_AskMovesToQualityChoice ==
    [][ \A k \in 1..MaxSongs :
          LET u == Resolve(ev')
              s == sessions[u]
              d == Get(s.data, EmptyData)
          IN  ( /\ SelectsNumber(k)
                /\ default_quality = "ask"
                /\ s.state = "waiting_for_song_choice"
                /\ Unexpired(s, now)
                /\ k <= Len(d.songs) )
              => ( /\ sessions'[u].state = "waiting_for_quality_choice"
                   /\ Get(sessions'[u].data, EmptyData).selected_song = <<d.songs[k]>>
                   /\ Len(sent') = 1
                   /\ sent'[1].kind = "quality_menu"
                   /\ Len(sent'[1].body) = 7
                   /\ downloaded' = <<>> ) ]_vars

\* the quality tiers in the order of the specification
TierOrder == <<"standard", "exhigh", "lossless", "hires", "sky", "jyeffect", "jymaster">>

\* C8: /n k with 1 <= k <= 7 on an unexpired waiting_for_quality_choice
\* session calls download exactly once with the selected track's id and the
\* k-th tier, and the session is Idle afterwards.
C8_QualityChoiceDownloads ==
    [][ \A k \in 1..Len(TierOrder) :
          LET u == Resolve(ev')
              s == sessions[u]
              d == Get(s.data, EmptyData)
          IN  ( /\ SelectsNumber(k)
                /\ s.state = "waiting_for_quality_choice"
                /\ d.selected_song # <<>>
                /\ Unexpired(s, now) )
              => ( /\ Len(downloaded') = 1
                   /\ downloaded'[1].song_id = ToStr(d.selected_song[1].id)
                   /\ downloaded'[1].quality = TierOrder[k]
                   /\ IsIdle(sessions'[u]) ) ]_vars

\* the numbers a /n argument of the model can denote
Numbers == -1..(MaxSongs + 1)

\* C9 (scenario C): /n k with k < 1 or k > N on an unexpired
\* waiting_for_song_choice session is answered with the out-of-range message,
\* downloads nothing and leaves the session as it was.
C9_OutOfRangeKeepsSession ==
    [][ \A k \in Numbers :
          LET u == Resolve(ev')
              s == sessions[u]
              d == Get(s.data, EmptyData)
          IN  ( /\ SelectsNumber(k)
                /\ s.state = "waiting_for_song_choice"
                /\ Unexpired(s, now)
                /\ (k < 1 \/ k > Len(d.songs)) )
              => ( /\ Len(sent') = 1
                   /\ sent'[1].kind = "out_of_range"
                   /\ downloaded' = <<>>
                   /\ sessions'[u] = s ) ]_vars

\* C10: in a numeric-expecting state a /n argument that is neither a number
\* nor a page token does not raise (the transport working), produces one
\* "enter a valid number" message and leaves the session as it was.
C10_NonNumericKeepsSession ==
    [][ LET u == Resolve(ev')
            s == sessions[u]
            arg == Strip(ev'.arg_str)
        IN  ( /\ SelectStep
              /\ s.state \in {"waiting_for_song_choice", "waiting_for_quality_choice"}
              /\ Unexpired(s, now)
              /\ ParseInt(arg) = <<>>
              /\ Lower(arg) \notin {<<"n">>, <<"p">>}
              /\ \A i \in 1..Len(sent') : sent'[i].ok )
            => ( /\ ~raised'
                 /\ Len(sent') = 1
                 /\ sent'[1].kind \in {"invalid_number", "quality_invalid"}
                 /\ sessions'[u] = s ) ]_vars

\* the step is SelectStep and its argument is a page token: n (forward) or p
PageStep(token) == SelectStep /\ Lower(Strip(ev'.arg_str)) = <<token>>

\* number of pages of a result list
TotalPages(songs) == (Len(songs) + PAGE_SIZE - 1) \div PAGE_SIZE

\* the cards of page p of a result list, numbered by their place in the list
PageCards(songs, p) ==
    LET last == IF (p + 1) * PAGE_SIZE < Len(songs) THEN (p + 1) * PAGE_SIZE ELSE Len(songs)
    IN  [i \in 1..(last - p * PAGE_SIZE) |->
            [no |-> p * PAGE_SIZE + i, id |-> songs[p * PAGE_SIZE + i].id]]

\* C11: on an unexpired waiting_for_quality_choice session a /n argument that
\* is a number outside 1..7 or not a number (n and p included) is answered
\* with an error message, downloads nothing and leaves the session, its
\* selected track included, as it was.
C11_QualityErrorKeepsSession ==
    [][ LET u == Resolve(ev')
            s == sessions[u]
            d == Get(s.data, EmptyData)
            parsed == ParseInt(Strip(ev'.arg_str))
        IN  ( /\ SelectStep
              /\ s.state = "waiting_for_quality_choice"
              /\ d.selected_song # <<>>
              /\ Unexpired(s, now)
              /\ (parsed = <<>> \/ parsed[1] < 1 \/ parsed[1] > Len(TierOrder)) )
            => ( /\ Len(sent') = 1
                 /\ sent'[1].kind \in {"quality_invalid", "quality_out_of_range"}
                 /\ downloaded' = <<>>
                 /\ sessions'[u].state = "waiting_for_quality_choice"
                 /\ Get(sessions'[u].data, EmptyData).selected_song = d.selected_song
                 /\ sessions'[u] = s ) ]_vars

\* C12: on an unexpired waiting_for_song_choice session the forward token
\* moves to the next page (current page plus one, same tracks) and sends that
\* page when there is one; on the last page it sends the "last page" message
\* and the session is unchanged.
C12_PageForward ==
    [][ LET u == Resolve(ev')
            s == sessions[u]
            d == Get(s.data, EmptyData)
            cp == Get(d.current_page, 0)
            s1 == sessions'[u]
            d1 == Get(s1.data, EmptyData)
        IN  (PageStep("n") /\ s.state = "waiting_for_song_choice" /\ Unexpired(s, now))
            => IF cp + 1 < TotalPages(d.songs)
               THEN /\ s1.state = "waiting_for_song_choice"
                    /\ d1.songs = d.songs
                    /\ d1.current_page = <<cp + 1>>
                    /\ Len(sent') = 1
                    /\ sent'[1].kind = "song_page"
                    /\ sent'[1].body = PageCards(d.songs, cp + 1)
               ELSE /\ Len(sent') = 1
                    /\ sent'[1].kind = "last_page"
                    /\ s1 = s ]_vars

\* the events /n n and /n p of a user
Forward(u) == Event("netease_music_select", u, NoId, <<"n">>)

Backward(u) == Event("netease_music_select", u, NoId, <<"p">>)

\* the user's session after /n n followed by /n p, both handled at time t
ForwardBackward(S, u, t) ==
    LET f == _handle_music_select(S, Forward(u), "", "ok", Working, t)
    IN  _handle_music_select(f.s, Backward(u), "", "ok", Working, t).s[u]

\* C13: on an unexpired waiting_for_song_choice session the backward token
\* moves to the previous page (current page minus one, same tracks) and sends
\* that page when the page is not 0; on page 0 it sends the "first page"
\* message and the session is unchanged; and from any page that has a next
\* page, forward then backward ends on the same page with the same tracks.
C13_PageBackward ==
    [][ /\ LET u == Resolve(ev')
               s == sessions[u]
               d == Get(s.data, EmptyData)
               cp == Get(d.current_page, 0)
               s1 == sessions'[u]
               d1 == Get(s1.data, EmptyData)
           IN  (PageStep("p") /\ s.state = "waiting_for_song_choice" /\ Unexpired(s, now))
               => IF cp > 0
                  THEN /\ s1.state = "waiting_for_song_choice"
                       /\ d1.songs = d.songs
                       /\ d1.current_page = <<cp - 1>>
                       /\ Len(sent') = 1
                       /\ sent'[1].kind = "song_page"
                       /\ sent'[1].body = PageCards(d.songs, cp - 1)
                  ELSE /\ Len(sent') = 1
                       /\ sent'[1].kind = "first_page"
                       /\ s1 = s
        /\ \A u \in Users :
              LET s == sessions[u]
                  d == Get(s.data, EmptyData)
                  cp == Get(d.current_page, 0)
                  r == ForwardBackward(sessions, u, now)
              IN  ( /\ s.state = "waiting_for_song_choice"
                    /\ Unexpired(s, now)
                    /\ cp + 1 < TotalPages(d.songs) )
                  => ( /\ r.state = "waiting_for_song_choice"
                       /\ Get(Get(r.data, EmptyData).current_page, 0) = cp
                       /\ Get(r.data, EmptyData).songs = d.songs ) ]_vars

\* the step handles a /y command whose search returned more than one page
SearchStepManyTracks ==
    /\ enabled
    /\ ev'.action = "netease_music_download"
    /\ Resolve(ev') # NoId
    /\ Len(searched') = 1
    /\ searched'[1].result.kind = "ok"
    /\ Len(searched'[1].result.data) > PAGE_SIZE

\* C14 (scenario B): the response to a search that returned 12 tracks (more
\* than one page) shows only entries 1 to 8, with a "next page" hint and no
\* "previous page" hint; a following forward token sends page 1, entries 9 to
\* 12 only, with a "previous page" hint and no "next page" hint.
C14_ScenarioB ==
    [][ /\ SearchStepManyTracks
              => ( /\ sent'[1].kind = "song_list"
                   /\ sent'[1].body = PageCards(searched'[1].result.data, 0)
                   /\ "next_page_hint" \in sent'[1].title.text
                   /\ "previous_page_hint" \notin sent'[1].title.text )
        /\ LET s == sessions[Resolve(ev')]
               d == Get(s.data, EmptyData)
           IN  ( /\ PageStep("n")
                 /\ s.state = "waiting_for_song_choice"
                 /\ Unexpired(s, now)
                 /\ Get(d.current_page, 0) = 0
                 /\ TotalPages(d.songs) = 2 )
               => ( /\ sent'[1].kind = "song_page"
                    /\ sent'[1].body = PageCards(d.songs, 1)
                    /\ "previous_page_hint" \in sent'[1].title.text
                    /\ "next_page_hint" \notin sent'[1].title.text ) ]_vars

\* the step is a call of the store operation op for the key u
StoreStep(op, u) == ev'.action = op /\ ev'.userid = u

\* C15: _get_session called when the record's last_active is more than 300
\* seconds old returns None and deletes the record; from then on every lookup
\* of that user, whatever the clock says, finds no record, until the next
\* _update_session for that user.
C15_ExpiredGetDeletes ==
    [][ \A u \in Users :
          /\ StoreStep("_get_session", u)
                => /\ ( \/ sessions[u].state = "absent"
                        \/ now' - sessions[u].last_active > SESSION_TIMEOUT )
                        => (returned'.value = <<>> /\ sessions'[u] = NoSession)
                   /\ \A v \in Users \ {u} : sessions'[v] = sessions[v]
          /\ (sessions[u].state = "absent" /\ sessions'[u].state # "absent")
                => StoreStep("_update_session", u) ]_vars

\* a lookup has just found an expired record and deleted it
C15_Witness ==
    /\ ev.action = "_get_session"
    /\ returned.found
    /\ returned.value = <<>>
    /\ sessions[ev.userid] = NoSession

\* C16: _get_session called when the record's last_active is at most 300
\* seconds old returns the stored session and leaves the whole store,
\* last_active included, as it was.
C16_GetWithinTTLChangesNothing ==
    [][ \A u \in Users :
          ( /\ StoreStep("_get_session", u)
            /\ sessions[u].state # "absent"
            /\ now' - sessions[u].last_active <= SESSION_TIMEOUT )
          => (returned'.value = <<sessions[u]>> /\ sessions' = sessions) ]_vars

\* a lookup exactly 300 seconds after the last write has returned the session
C16_Witness ==
    /\ ev.action = "_get_session"
    /\ returned.value # <<>>
    /\ now - returned.value[1].last_active = SESSION_TIMEOUT
    /\ sessions[ev.userid] = returned.value[1]

\* C17: after _update_session(u, s) at time t, _get_session(u) at any time
\* within the TTL returns exactly the fields of s with last_active = t,
\* whatever was stored for u before.
C17_PutGetRoundTrip ==
    [][ \A u \in Users :
          StoreStep("_update_session", u)
            => LET s == ev'.arg_str[1]
                   stored == [state |-> s.state, data |-> s.data, last_active |-> now']
               IN  /\ sessions'[u] = stored
                   /\ \A t \in Times :
                         t - now' <= SESSION_TIMEOUT
                           => _get_session(sessions', u, t) =
                                  [s |-> sessions', session |-> <<stored>>] ]_vars

\* a session without data has just been written over an existing record
C17_Witness ==
    /\ ev.action = "_update_session"
    /\ returned.found
    /\ ev.arg_str[1].data = <<>>
    /\ sessions[ev.userid].state = "idle"

\* C18: popping a user's session leaves no record for that user and every
\* other record as it was; popping again, or popping an absent key, changes
\* nothing; no pop raises.
C18_RemoveIdempotent ==
    [][ \A u \in Users :
          StoreStep("pop", u)
            => /\ ~raised'
               /\ sessions'[u] = NoSession
               /\ \A v \in Users \ {u} : sessions'[v] = sessions[v]
               /\ sessions[u] = NoSession => sessions' = sessions
               /\ Pop(sessions', u) = sessions' ]_vars

\* an absent key has just been popped while the other user holds a session
C18_Witness ==
    /\ ev.action = "pop"
    /\ ~returned.found
    /\ ~raised
    /\ \E v \in Users \ {ev.userid} : sessions[v].state # "absent"

\* the store that holds the record of user u and nothing else
Alone(S, u) == [w \in Users |-> IF w = u THEN S[u] ELSE NoSession]

\* C19: handling a /y or /n event of user u leaves the session of every other
\* user as it was, and gives u the session, the responses and the catalog
\* calls that the same event gives when u's record is the only one in the
\* store; so, events of the users interleaved in any order, each user's
\* session is the one its own events alone produce.
C19_UsersIsolated ==
    [][ LET u == Resolve(ev')
            res == IF searched' # <<>> THEN searched'[1].result ELSE NoSearch
            dl == IF downloaded' # <<>> THEN downloaded'[1].result ELSE "ok"
            r == Dispatch(Alone(sessions, u), enabled, default_quality, ev', res, dl,
                          Working, now)
        IN  (ev'.action \in {"netease_music_download", "netease_music_select"} /\ u \in Users)
            => /\ \A v \in Users \ {u} : sessions'[v] = sessions[v]
               /\ sessions'[u] = r.s[u]
               /\ sent' = r.out
               /\ searched' = r.searched
               /\ downloaded' = r.downloaded ]_vars

\* a /n of u1 has just found u1's session expired and removed it while u2 holds
\* a session
C19_Witness ==
    /\ ev.action = "netease_music_select"
    /\ Resolve(ev) = "u1"
    /\ Len(sent) = 1
    /\ sent[1].kind \in {"expired", "no_session"}
    /\ sessions["u1"] = NoSession
    /\ sessions["u2"].state # "absent"

\* the last event was a /n of a known user whose argument is a page token
PageRequest ==
    /\ enabled
    /\ ev.action = "netease_music_select"
    /\ Resolve(ev) # NoId
    /\ Lower(Strip(ev.arg_str)) \in { <<"n">>, <<"p">> }

\* C20: an event that made a download call, successful or failed, sent exactly
\* one response, and so did every /n with a page token, whether the page
\* moved, a boundary was hit or the request was refused.
C20_ExactlyOneResponse == (downloaded # <<>> \/ PageRequest) => Len(sent) = 1

\* a failed download has just been reported in one message
C20_Witness ==
    /\ downloaded # <<>>
    /\ downloaded[1].result = "fail"
    /\ Len(sent) = 1
    /\ sent[1].kind = "download_failed"

\* the step handles a /y command of a known user that carries a keyword
DownloadStep ==
    /\ enabled
    /\ ev'.action = "netease_music_download"
    /\ Resolve(ev') # NoId
    /\ Strip(ev'.arg_str) # <<>>

\* the record's last_active is more than SESSION_TIMEOUT old at time t
Expired(s, t) == s.state # "absent" /\ t - s.last_active > SESSION_TIMEOUT

\* C21: when the stored session has expired, a /n is answered with the
\* "expired" message, selects, pages and downloads nothing and leaves the user
\* without a session; a /y makes its search, sends no message about expiry
\* and, when tracks are found, stores a fresh session.
C21_ExpiryOnLookup ==
    [][ LET u == Resolve(ev')
            s == sessions[u]
        IN  /\ (SelectStep /\ Expired(s, now))
                  => ( /\ Len(sent') = 1
                       /\ sent'[1].kind = "expired"
                       /\ downloaded' = <<>>
                       /\ sessions'[u] = NoSession )
            /\ (DownloadStep /\ Expired(s, now))
                  => ( /\ Len(searched') = 1
                       /\ \A i \in 1..Len(sent') :
                             sent'[i].kind \notin {"expired", "no_session"}
                       /\ (searched'[1].result.kind = "ok" /\ searched'[1].result.data # <<>>)
                             => ( /\ sessions'[u].state = "waiting_for_song_choice"
                                  /\ sessions'[u].last_active = now
                                  /\ Get(sessions'[u].data, EmptyData).songs =
                                         searched'[1].result.data ) ) ]_vars

\* the states in which a /n selects, pages or chooses a quality
RecognizedStates == {"waiting_for_song_choice", "waiting_for_quality_choice"}

\* C22: a /n that finds an unexpired stored session whose state is none of
\* the recognized ones is answered with one "session state invalid" message,
\* selects, pages and downloads nothing, and leaves the user Idle.
C22_UnrecognizedStateResets ==
    [][ LET u == Resolve(ev')
            s == sessions[u]
        IN  (SelectStep /\ Unexpired(s, now) /\ s.state \notin RecognizedStates)
            => ( /\ Len(sent') = 1
                 /\ sent'[1].kind = "bad_state"
                 /\ downloaded' = <<>>
                 /\ IsIdle(sessions'[u])
                 /\ Get(sessions'[u].data, EmptyData) = EmptyData ) ]_vars

\* C23: no exception leaves command_action: whatever raises while an event is
\* handled (a send of the transport, here) is caught inside the dispatcher.
C23_NoExceptionEscapes == ~raised

\* C24: after an event that made a download call, successful or failed, the
\* store holds no record for the user of the event.
C24_RecordRemovedAfterDownload ==
    downloaded # <<>> => sessions[Resolve(ev)] = NoSession

\* C25: the message that reports a successful download names the tier the
\* service says it used (quality_name of the download result), also when that
\* is not the tier asked for.
C25_ServedTierShown ==
    (downloaded # <<>> /\ Succeeded(downloaded[1].result))
        => ( /\ Len(sent) = 1
             /\ sent[1].kind = "download_ok"
             /\ sent[1].body =
                    << served_quality_name(downloaded[1].result, downloaded[1].quality) >> )

\* C26: one event makes at most one search call and at most one download
\* call, and a call that failed is reported in the first message of the same
\* event as that step's failure.
C26_NoRetries ==
    /\ Len(searched) <= 1
    /\ Len(downloaded) <= 1
    /\ (searched # <<>> /\ searched[1].result.kind # "ok")
          => (sent # <<>> /\ sent[1].kind = "search_failed" /\ downloaded = <<>>)
    /\ (downloaded # <<>> /\ ~Succeeded(downloaded[1].result))
          => (Len(sent) = 1 /\ sent[1].kind = "download_failed" /\ searched = <<>>)

\* a search that raised inside the client has just been reported
C26_Witness ==
    /\ Len(searched) = 1
    /\ searched[1].result.kind = "error"
    /\ sent[1].kind = "search_failed"
    /\ sent[1].ok

\* the user an event names: its primary id field, the secondary one only when
\* the primary is missing
NamedUser(e) == IF e.userid = NoId THEN e.user ELSE e.userid

\* C27: while a /y or /n event is handled, every response is addressed to
\* the user named by the primary id field, or by the secondary field when the
\* primary is missing, and only that user's session is read, written or
\* removed, whichever handler does it.
C27_UserIdResolution ==
    [][ (enabled /\ ev'.action \in {"netease_music_download", "netease_music_select"})
          => /\ \A i \in 1..Len(sent') : sent'[i].to = NamedUser(ev')
             /\ \A v \in Users \ {NamedUser(ev')} : sessions'[v] = sessions[v]
             /\ (Len(searched') = 1 /\ searched'[1].result.kind = "ok"
                   /\ searched'[1].result.data # <<>>)
                  => sessions'[NamedUser(ev')].state = "waiting_for_song_choice"
             /\ downloaded' # <<>> => sessions'[NamedUser(ev')].state = "idle" ]_vars

\* a /n that carries both id fields has just been answered to the primary one
\* with a download, and only the primary one holds a record
C27_Witness ==
    /\ ev.action = "netease_music_select"
    /\ ev.userid = "u1" /\ ev.user = "u2"
    /\ downloaded # <<>>
    /\ sent[1].to = "u1"
    /\ sessions["u1"].state = "idle"
    /\ sessions["u2"] = NoSession

\* C28: a stored session changes or disappears only while an event of its
\* own user is handled or at plugin shutdown; the passing of time removes
\* nothing, so an expired session stays in the store until then; shutdown
\* leaves the store without a record for any user.
C28_LazyExpiry ==
    [][ /\ \A u \in Users :
              sessions'[u] # sessions[u]
                => \/ ev'.action = "stop_service"
                   \/ /\ ev'.action \in {"netease_music_download", "netease_music_select"}
                      /\ Resolve(ev') = u
        /\ ev'.action = "stop_service" => \A u \in Users : sessions'[u] = NoSession ]_vars

\* time has passed and an expired session is still in the store
C28_Witness ==
    /\ ev = NoEvent
    /\ \E u \in Users : Expired(sessions[u], now)

\* ceil(n / PAGE_SIZE), by counting
CeilPages(n) == CHOOSE k \in 0..n : k * PAGE_SIZE >= n /\ (k - 1) * PAGE_SIZE < n

\* the smaller of two numbers
Min(a, b) == IF a < b THEN a ELSE b

\* C30: for a list of N >= 1 tracks and a page p, 0 <= p < ceil(N/8), the
\* text of the page and the cards of the page both list exactly the tracks at
\* positions 8p+1 .. min(8p+8, N), in list order and under those numbers; over
\* all pages every track is listed exactly once; the text carries the
\* "previous page" hint iff p > 0 and the "next page" hint iff p < ceil(N/8) - 1.
C30_PageFormatting ==
    LET songs == ev.arg_str[1]
        p == ev.arg_str[2]
        N == Len(songs)
        first == PAGE_SIZE * p + 1
        last == Min(PAGE_SIZE * p + PAGE_SIZE, N)
        Listed(lines) ==
            /\ Len(lines) = last - first + 1
            /\ \A k \in 1..Len(lines) :
                  /\ lines[k].no = first + k - 1
                  /\ lines[k].id = songs[first + k - 1].id
    IN  /\ (ev.action = "_format_song_list_page")
              => LET text == returned.value[1]
                     Hints == { text.hints[i] : i \in 1..Len(text.hints) }
                     PagesOf(j) ==
                         { q \in 0..(CeilPages(N) - 1) :
                             \E k \in 1..Len(_format_song_list_page("u1", songs, q).lines) :
                                 _format_song_list_page("u1", songs, q).lines[k].no = j }
                 IN  /\ text.header.pages = CeilPages(N)
                     /\ Listed(text.lines)
                     /\ \A j \in 1..N : Cardinality(PagesOf(j)) = 1
                     /\ ("previous_page_hint" \in Hints) <=> (p > 0)
                     /\ ("next_page_hint" \in Hints) <=> (p < CeilPages(N) - 1)
        /\ (ev.action = "_send_song_list_page_as_media_card")
              => /\ Len(sent) = 1
                 /\ sent[1].kind = "song_page"
                 /\ sent[1].title.page = <<p + 1, CeilPages(N)>>
                 /\ Listed(sent[1].body)

\* the last, partly filled page of a three-page list has just been formatted
C30_Witness ==
    /\ ev.action = "_format_song_list_page"
    /\ Len(ev.arg_str[1]) = 2 * PAGE_SIZE + 3
    /\ ev.arg_str[2] = 2
    /\ Len(returned.value[1].lines) = 3
    /\ returned.value[1].hints = <<"previous_page_hint">>

\* no handler is between its first and its last step
Quiescent == \A h \in Handlers : running.frames[h].pc \in {"start", "done"}

\* C29: when the two handlers of one user's events have run with their steps
\* interleaved, the session stored is the one made by the handler whose write
\* was the last, of the session that handler read and of its own change: no
\* field of it was written by the other handler after that read.
C29_LastWriteWins ==
    (Quiescent /\ running.last # 0)
        => sessions[RaceUser] = running.frames[running.last].own[1]

\* the last event was a /y command without a keyword and its prompt was delivered
Prompted ==
    /\ enabled
    /\ ev.action = "netease_music_download"
    /\ Resolve(ev) # NoId
    /\ Strip(ev.arg_str) = <<>>
    /\ Len(Delivered(sent)) = 1

\* C31: after a /y command without a keyword was answered with the prompt, the
\* next free-text message of that user is used as the keyword: one search call
\* is made with the text.
C31_FreeTextIsKeyword ==
    [][ (Prompted /\ ev'.action = "user_message" /\ Resolve(ev') = Resolve(ev))
            => /\ Len(searched') = 1
               /\ searched'[1].keyword = Strip(ev'.arg_str) ]_vars

\* C32: on an unexpired session in waiting_for_song_choice, a button callback
\* that carries the id of a track of the session's list has the effect of
\* /n <position of that track>: the same session is stored and the same
\* download call is made.
C32_CallbackAsNumber ==
    [][ \A u \in Users :
          LET songs == Get(sessions[u].data, EmptyData).songs
              At == { k \in 1..Len(songs) : ToStr(songs[k].id) = Strip(ev'.arg_str) }
              k == CHOOSE k \in At : TRUE
              r == _handle_music_select(sessions,
                                        Event("netease_music_select", u, NoId, ToStr(k)),
                                        default_quality, "ok", Working, now)
          IN  ( /\ enabled
                /\ ev'.action = "callback"
                /\ Resolve(ev') = u
                /\ sessions[u].state = "waiting_for_song_choice"
                /\ Unexpired(sessions[u], now)
                /\ At # {} )
                  => /\ sessions' = r.s
                     /\ downloaded' = r.downloaded ]_vars

C35_PageIndexInRange ==
    \A u \in Users :
        (sessions[u].data # <<>> /\ sessions[u].data[1].songs # <<>>)
            => LET data == sessions[u].data[1]
                   p == Get(data.current_page, 0)
               IN  0 <= p /\ p < CeilPages(Len(data.songs))

\* the last page is stored and a further /n n was answered "last page"
C35_Witness ==
    /\ ev.action = "netease_music_select"
    /\ Len(sent) = 1
    /\ sent[1].kind = "last_page"
    /\ sessions["u1"].data # <<>>
    /\ sessions["u1"].data[1].current_page
          = << CeilPages(Len(sessions["u1"].data[1].songs)) - 1 >>
    /\ CeilPages(Len(sessions["u1"].data[1].songs)) > 1

\* C36: every stored session in waiting_for_quality_choice holds a selected
\* track, and that track is one of the session's result list.
C36_QualityChoiceHasTrack ==
    \A u \in Users :
        sessions[u].state = "waiting_for_quality_choice"
            => /\ sessions[u].data # <<>>
               /\ sessions[u].data[1].selected_song # <<>>
               /\ \E k \in 1..Len(sessions[u].data[1].songs) :
                     sessions[u].data[1].songs[k] = sessions[u].data[1].selected_song[1]

\* the second track was chosen and the quality is awaited
C36_Witness ==
    /\ sessions["u1"].state = "waiting_for_quality_choice"
    /\ ParseInt(Strip(ev.arg_str)) = <<2>>
    /\ sessions["u1"].data[1].selected_song = << Catalog(<<"a">>)[2] >>

\* C34: /n k with 1 <= k <= N on an unexpired waiting_for_song_choice session
\* selects the k-th track of the whole result list, whatever page is stored:
\* that track is downloaded, or stored as the selected track when the quality
\* is asked for.
C34_NumberIsListPosition ==
    [][ \A k \in Numbers :
          LET u == Resolve(ev')
              s == sessions[u]
              d == Get(s.data, EmptyData)
          IN  ( /\ SelectsNumber(k)
                /\ s.state = "waiting_for_song_choice"
                /\ Unexpired(s, now)
                /\ 1 <= k /\ k <= Len(d.songs) )
              => \/ /\ Len(downloaded') = 1
                    /\ downloaded'[1].song_id = ToStr(d.songs[k].id)
                 \/ /\ downloaded' = <<>>
                    /\ sessions'[u].state = "waiting_for_quality_choice"
                    /\ sessions'[u].data # <<>>
                    /\ sessions'[u].data[1].selected_song = <<d.songs[k]>> ]_vars

\* C37: a download call is made only by a /n command of a user whose stored
\* session, when the event arrives, is unexpired and waits for a track or a
\* quality choice, and it asks for a track of that session's result list.
C37_DownloadsFromOwnSession ==
    [][ downloaded' # <<>>
          => LET u == Resolve(ev')
                 s == sessions[u]
             IN  /\ ev'.action = "netease_music_select"
                 /\ u \in Users
                 /\ Len(downloaded') = 1
                 /\ s.state \in {"waiting_for_song_choice", "waiting_for_quality_choice"}
                 /\ Unexpired(s, now)
                 /\ s.data # <<>>
                 /\ \E k \in 1..Len(s.data[1].songs) :
                       ToStr(s.data[1].songs[k].id) = downloaded'[1].song_id ]_vars

\* both users hold a session and a track of the user's own list was downloaded
C37_Witness ==
    /\ Len(downloaded) = 1
    /\ Resolve(ev) = "u2"
    /\ downloaded[1].song_id = ToStr(Catalog(<<"b">>)[1].id)
    /\ sessions["u1"].state = "waiting_for_song_choice"

\* C38: within a download attempt the session of the user is overwritten with
\* the idle session in a step before the catalog download call; the download
\* step, whatever its outcome, leaves the store as it is; so an event of the
\* user that has not been handled yet finds an idle session while the download
\* is in flight and after it has returned.
C38_IdleBeforeDownload ==
    [][ /\ \A h \in Handlers :
             (running.frames[h].pc # "downloading" /\ running'.frames[h].pc = "downloading")
                 => /\ sessions'[RaceUser].state = "idle"
                    /\ sessions'[RaceUser].data = <<>>
                    /\ downloaded' = <<>>
        /\ downloaded' # <<>>
             => /\ \E h \in Handlers : /\ running.frames[h].pc = "downloading"
                                        /\ running'.frames[h].pc = "done"
                /\ sessions' = sessions
        /\ \A h, g \in Handlers :
             (running'.frames[h].pc = "downloading" \/ downloaded' # <<>>)
                /\ running'.frames[h].call # <<>>
                /\ running'.frames[g].pc = "start"
                 => sessions'[RaceUser].state = "idle" ]_vars

\* a download that failed has returned while the other delivery is not handled
\* yet: the session is idle
C38_Witness ==
    /\ Len(downloaded) = 1
    /\ downloaded[1].result = "fail"
    /\ \E h, g \in Handlers : /\ running.frames[h].pc = "done"
                              /\ running.frames[h].call # <<>>
                              /\ running.frames[g].pc = "start"
    /\ sessions[RaceUser].state = "idle"

\* the step handles a /n argument that the session of its user, were it valid,
\* rejects: in waiting_for_song_choice a number outside 1..N, a page token at
\* the first or last page or any other text; in waiting_for_quality_choice
\* anything but a number in 1..7
RejectedInput(u) ==
    LET s == sessions[u]
        d == Get(s.data, EmptyData)
        command_args == Strip(ev'.arg_str)
        parsed == ParseInt(command_args)
        p == Get(d.current_page, 0)
    IN  /\ SelectStep
        /\ Resolve(ev') = u
        /\ \/ /\ s.state = "waiting_for_song_choice"
              /\ \/ Lower(command_args) = <<"n">> /\ p >= TotalPages(d.songs) - 1
                 \/ Lower(command_args) = <<"p">> /\ p <= 0
                 \/ /\ Lower(command_args) \notin {<<"n">>, <<"p">>}
                    /\ (parsed = <<>> \/ parsed[1] < 1 \/ parsed[1] > Len(d.songs))
           \/ /\ s.state = "waiting_for_quality_choice"
              /\ (parsed = <<>> \/ parsed[1] < 1 \/ parsed[1] > Len(quality_options))

\* C39: a rejected input does not extend the lifetime of a session: the
\* session it leaves, if any, has the last_active it had, and a session whose
\* last_active is more than 300 seconds old is removed by it, however many
\* rejected inputs came before.
C39_RejectedInputKeepsAge ==
    [][ \A u \in Users :
          RejectedInput(u)
            => /\ sessions'[u].state # "absent"
                   => sessions'[u].last_active = sessions[u].last_active
               /\ Expired(sessions[u], now) => sessions'[u] = NoSession
               /\ downloaded' = <<>> ]_vars

\* a text that is no number was rejected one second after the search, and the
\* session has the age it had
C39_Witness ==
    /\ ev.action = "netease_music_select"
    /\ Len(sent) = 1
    /\ sent[1].kind = "invalid_number"
    /\ sessions["u1"].state = "waiting_for_song_choice"
    /\ sessions["u1"].last_active < now

\* the step is the dispatch of a PluginAction event
CommandStep ==
    ev' \in DownloadEvents \cup BareDownloadEvents \cup SelectEvents \cup IgnoredEvents
               \cup CallbackEvents

Commands == {"netease_music_download", "netease_music_select"}

\* C40: an event dispatched while the plugin is disabled, or without a user
\* id, or with an action that is no command of the plugin, sends nothing,
\* calls neither search nor download and leaves the session store as it is; a
\* /y or /n command whose argument is empty after trimming sends one prompt,
\* calls neither search nor download and leaves the session store as it is.
C40_NothingToActOn ==
    [][ CommandStep
          => /\ (~enabled \/ Resolve(ev') = NoId \/ ev'.action \notin Commands)
                  => /\ sent' = <<>>
                     /\ searched' = <<>>
                     /\ downloaded' = <<>>
                     /\ sessions' = sessions
             /\ ( /\ enabled
                  /\ Resolve(ev') # NoId
                  /\ ev'.action \in Commands
                  /\ Strip(ev'.arg_str) = <<>> )
                  => /\ Len(sent') = 1
                     /\ sent'[1].kind = IF ev'.action = "netease_music_download"
                                        THEN "prompt_keyword" ELSE "prompt_select"
                     /\ searched' = <<>>
                     /\ downloaded' = <<>>
                     /\ sessions' = sessions ]_vars

\* /n with a blank argument was answered with the prompt while the stored
\* session is more than 300 seconds old, and the session is still stored
C40_Witness ==
    /\ ev.action = "netease_music_select"
    /\ Strip(ev.arg_str) = <<>>
    /\ Len(sent) = 1
    /\ sent[1].kind = "prompt_select"
    /\ Expired(sessions["u1"], now)

====
